---- MODULE Spec2Model ----
(***************************************************************************)
(* Model of yuketang-auto-study: the heartbeat sequencer                   *)
(* (yuketang_video/api.py, class Heartbeat), the batching scheduler with   *)
(* its retry loop (main.py, send_heartbeats), the concurrency gate         *)
(* (yuketang_video/util.py, wrap_with_async_ctx over asyncio.Semaphore)    *)
(* and the orchestrator (main.py, main).                                   *)
(*                                                                         *)
(* Units.  The source computes with floats; the model uses integers:       *)
(*   - wall-clock time and the sequencer's timestamp are counted in ticks, *)
(*     TicksPerMs ticks to the millisecond, so that int(timestamp * 1000)  *)
(*     truncates;                                                          *)
(*   - playback rate is a numerator over RateDen (RateOne is rate 1), and  *)
(*     progress, duration and last_point are counted in units of           *)
(*     1/RateDen second, so that interval * playback_rate is              *)
(*     interval * rate in progress units.                                  *)
(***************************************************************************)
EXTENDS Integers, Sequences, FiniteSets, TLC

(* ------------------------------- units -------------------------------- *)
TicksPerMs == 2
MsPerSec == 1000
TicksPerSec == MsPerSec * TicksPerMs
RateDen == 2
RateOne == RateDen

(* ------------------------------- bounds ------------------------------- *)
\* sequencer specification: largest duration (progress units), interval (s),
\* rate numerator, number of rng seeds
MaxDur == 8
MaxInterval == 3
MaxRate == 4
NumSeeds == 3
\* wall-clock reading at program start, in seconds
StartSec == 40
\* program specification: number of video leaves, failed submit attempts
\* in one run, the two video lengths the server knows (progress units)
NumLeaves == 2
MaxFails == 1
ShortDur == 20
LongDur == 160
\* batching specification: the largest number of heartbeat records
MaxHeartbeats == 14

Min2(a, b) == IF a <= b THEN a ELSE b
Max2(a, b) == IF a >= b THEN a ELSE b
CeilDiv(a, b) == (a + b - 1) \div b

VARIABLES
    \* --- sequencer specification (SpecSeq) ---
    gen,        \* the Heartbeat builder and its make_all generator
    stream,     \* the records the generator has yielded so far
    args,       \* the arguments the builder and make_all were called with
    batches,    \* the batches itertools.batched has handed out so far (SpecBatch)
    \* --- program specification (Spec) ---
    now,        \* time.time(), in ticks
    limit,      \* config max_concurrent_tasks
    sem,        \* the value of asyncio.Semaphore(max_concurrent_tasks)
    mainPc,     \* the await main() is suspended at
    leaf,       \* index into video_leaves of the leaf main() is resolving
    cur,        \* main()'s locals for that leaf: leaf_info media, watch_progress
    tasks,      \* main()'s list tasks, by leaf index, in creation order
    failures,   \* submit attempts that have failed so far, all sessions
    sess        \* per video leaf: its session (resolution result and task)

seqVars == <<gen, stream, args, batches>>
progVars == <<now, limit, sem, mainPc, leaf, cur, tasks, failures, sess>>
vars == <<gen, stream, args, batches, now, limit, sem, mainPc, leaf, cur, tasks,
          failures, sess>>

(* --------------------------- Heartbeat (api.py) ----------------------- *)

\* rng = random.Random(): seeded from the OS, after which the draws of
\* normalvariate(0, variance) are a function of the seed and the draw number.
\* The value is the jitter in ticks; any real is a possible draw.
JitterOf(seed, k) ==
    CASE seed = 1 -> 0
      [] seed = 2 -> IF k % 2 = 1 THEN 1 ELSE -1
      [] seed = 3 -> IF k = 2 THEN -(6 * TicksPerSec) ELSE 3
      [] OTHER -> ((seed * k) % 5) - 2

\* str(int(timestamp * 1000)): the timestamp in whole milliseconds
ToMillis(t) == t \div TicksPerMs

\* Heartbeat.__init__
HeartbeatInit(video_id, interval, playback_rate, duration, seed) ==
    [ video_id |-> video_id, interval |-> interval,
      playback_rate |-> playback_rate, duration |-> duration,
      sequence_id |-> 0, seed |-> seed,
      pc |-> "new", progress |-> 0, timestamp |-> 0, draws |-> 0 ]

\* builder.make_all(timestamp, progress): a generator, no code runs yet
MakeAll(b, timestamp, progress) ==
    [b EXCEPT !.pc = "start", !.progress = progress, !.timestamp = timestamp]

\* self.sequence_id += 1
NextSeqSkip(b) == b.sequence_id + 2
NextSeq(b) == b.sequence_id + 1

\* Heartbeat.make_heartbeat: the record (the fields the claims speak of)
MakeHeartbeat(b, event, progress, timestamp) ==
    [ et |-> event, cp |-> progress, ts |-> ToMillis(timestamp),
      sq |-> NextSeq(b), v |-> b.video_id, i |-> b.interval,
      sp |-> b.playback_rate, d |-> b.duration ]

\* self.interval * self.playback_rate: the progress of one interval
StepNoRate(g) == g.interval * RateOne
Step(g) == g.interval * g.playback_rate

\* progress = min(self.duration, progress + self.interval * self.playback_rate)
AdvanceNoClamp(g) == g.progress + Step(g)
Advance(g) == Min2(g.duration, g.progress + Step(g))

\* while progress < self.duration
HasMoreDoWhile(g) == g.progress < g.duration \/ g.draws = 0
HasMore(g) == g.progress < g.duration

\* timestamp += self.interval + rng.normalvariate(0, variance)
AdvanceTimeJitterOnly(g) == g.timestamp + JitterOf(g.seed, g.draws + 1)
AdvanceTime(g) ==
    g.timestamp + g.interval * TicksPerSec + JitterOf(g.seed, g.draws + 1)

\* if self.playback_rate != 1
EmitsRateChangeNever(g) == FALSE
EmitsRateChange(g) == g.playback_rate # RateOne

\* one next() on the generator of make_all: the generator afterwards and
\* the record it yields (<<>> when it raises StopIteration)
GenNext(g) ==
    IF g.pc = "start" /\ EmitsRateChange(g)
    THEN [ gen |-> [g EXCEPT !.pc = "loop", !.sequence_id = NextSeq(g)],
           out |-> <<MakeHeartbeat(g, "ratechange", 0, g.timestamp)>> ]
    ELSE IF g.pc \in {"start", "loop"} /\ HasMore(g)
    THEN LET p == Advance(g)
             t == AdvanceTime(g)
         IN [ gen |-> [g EXCEPT !.pc = "loop", !.progress = p,
                                !.timestamp = t, !.draws = g.draws + 1,
                                !.sequence_id = NextSeq(g)],
              out |-> <<MakeHeartbeat(g, "heartbeat", p, t)>> ]
    ELSE [ gen |-> [g EXCEPT !.pc = "done"], out |-> <<>> ]

(* --------------------- program constants (main.py) -------------------- *)
\* Heartbeat(leaf_info, media_url, interval=5, playback_rate=2.0, ...)
Interval == 5
PlaybackRate == 2 * RateDen
\* builder.make_all(time.time() - 30, last_point)
StartLag == 30
\* itertools.batched(heartbeats, 6)
BatchSize == 6
\* await asyncio.sleep(1) in the retry loop
RetrySleep == 1

\* config.get("max_concurrent_tasks", 8): the configured values explored
ConcurrencyLimits == {1, 2}

Leaves == 1..NumLeaves
Streaming == {"sleeping", "sending", "backoff", "query"}
Terminal == {"nomedia", "skip", "failed", "done", "cancelled"}

(* ------------------------- the remote's answers ----------------------- *)
\* get_video_watch_progress: data["data"].get(str(video_id), {})
NoProgress ==
    [present |-> FALSE, completed |-> 0, last_point |-> 0, video_length |-> 0]
WatchProgressAnswers ==
    {NoProgress}
      \cup [present : {TRUE}, completed : {1}, last_point : {ShortDur},
            video_length : {ShortDur}]
      \cup [present : {TRUE}, completed : {0}, last_point : {ShortDur},
            video_length : {ShortDur, LongDur}]
\* leaf_info["content_info"]["media"]: which key carries the video, and the
\* embedded duration
LeafInfoAnswers ==
    [media : {"playurl"}, duration : {0, ShortDur}]
      \cup [media : {"ccid", "none"}, duration : {0}]
\* get_video_duration: ffprobe's reading of the media, which need not be a
\* whole number of steps
ProbeAnswers == {ShortDur + 1}
\* what one POST to the heartbeat endpoint can come to
SubmitOutcomes == {"ok", "api_error", "http_error", "network_error"}
\* the watch-progress re-read after a batch: watch_progress.get("watch_length", 0)
\* of the answer, or the call raises (APIError, HTTP status, transport)
WatchLengthAnswers == {ShortDur}
\* tqdm's postfix before the first set_postfix
NoPostfix == [set |-> FALSE, watch_length |-> 0]

(* ----------------------- batching (main.py 177) ----------------------- *)
\* itertools.batched pulls up to n records from the generator
\* (r and rest are bound as set elements so that each next() is computed once)
TheOne(S) == CHOOSE x \in S : TRUE
RECURSIVE Take(_, _)
Take(g, n) ==
    IF n = 0 THEN [gen |-> g, out |-> <<>>]
    ELSE TheOne({ IF r.out = <<>> THEN r
                  ELSE TheOne({ [gen |-> rest.gen, out |-> r.out \o rest.out] :
                                  rest \in {Take(r.gen, n - 1)} }) :
                  r \in {GenNext(g)} })

\* itertools.batched(heartbeats, 6): one next() on it
BatchedGreedy(g) == Take(g, BatchSize + 1)
Batched(g) == Take(g, BatchSize)

\* timestamp = int(batch[-1]["ts"]) / 1000, in ticks
DueTime(batch) == batch[Len(batch)].ts * TicksPerMs

\* max(0, timestamp - time.time())
SleepForNothing(due, t) == 0
SleepFor(due, t) == Max2(0, due - t)

(* ------------------ send_video_heartbeat (api.py 171) ----------------- *)
\* session.post raises on a transport error, response.raise_for_status()
\* on a non-success status; the response body is never read
SendVideoHeartbeatRaises(outcome) == outcome \in {"http_error", "network_error"}

\* await asyncio.sleep(1) begun at time t: when it is over
RetryWakeAtOnce(t) == t
RetryWake(t) == t + RetrySleep * TicksPerSec

\* where the retry loop goes after the except branch
AfterSendFailureGiveUp == "query"
AfterSendFailure == "backoff"

(* ------------------- the semaphore (util.py, main.py 56) -------------- *)
CanAcquireAlways(s) == TRUE
CanAcquire(s) == s > 0

(* ------------------------------ sessions ------------------------------ *)
\* rng = random.Random() in session i: every session has a generator of its
\* own, seeded apart from the others
SeedOf(i) == ((i - 1) % NumSeeds) + 1

NoGen == HeartbeatInit(0, Interval, PlaybackRate, 0, 1)
\* the task's locals are gone once send_heartbeats has returned
Finished == [NoGen EXCEPT !.pc = "done"]

NewSession ==
    [ st |-> "pending", completed |-> FALSE, last_point |-> 0, duration |-> 0,
      g |-> NoGen, batch |-> <<>>, batchNo |-> 0, okBatches |-> 0,
      delivered |-> {}, wakeAt |-> 0, attempts |-> 0,
      fails |-> 0, failedAt |-> 0, lastOutcome |-> "none",
      postfix |-> NoPostfix ]

\* a task that has returned or was cancelled: its locals are gone
Ended(st) == [NewSession EXCEPT !.st = st, !.g = Finished]

NoCur == [media |-> "none", duration |-> 0, wp |-> NoProgress]

Init ==
    /\ now = StartSec * TicksPerSec
    /\ limit \in ConcurrencyLimits
    /\ sem = limit
    /\ mainPc = "get_leaf_info"
    /\ leaf = 1
    /\ cur = NoCur
    /\ tasks = <<>>
    /\ failures = 0
    /\ sess = [i \in Leaves |-> NewSession]
    /\ gen = NoGen /\ stream = <<>> /\ batches = <<>>
    /\ args = [D |-> 1, I |-> 1, R |-> 1, p0 |-> 0, seed |-> 1]

(* ------------------------------- main() ------------------------------- *)

\* the for loop moves to the next leaf, or main() reaches gather
NextLeaf ==
    /\ cur' = NoCur
    /\ IF leaf < NumLeaves
       THEN leaf' = leaf + 1 /\ mainPc' = "get_leaf_info"
       ELSE leaf' = leaf /\ mainPc' = "gather"

\* main.py 101-107: tasks.append(asyncio.create_task(wrapped(...)))
CreateTask(last_point, duration, completed) ==
    /\ sess' = [sess EXCEPT ![leaf] =
                  [@ EXCEPT !.st = "queued", !.last_point = last_point,
                            !.duration = duration, !.completed = completed]]
    /\ tasks' = Append(tasks, leaf)
    /\ NextLeaf

\* main.py 85: watch_progress.get("completed") == 1
IsCompletedNever(wp) == FALSE
IsCompleted(wp) == wp.completed = 1

\* main.py 95: if duration == 0
NeedsProbeNever(embedded) == FALSE
NeedsProbe(embedded) == embedded = 0

\* main.py 84-99 once media_url is known: skip, probe or start the task
Seed(wp, embedded) ==
    IF wp.present
    THEN IF IsCompleted(wp)
         THEN /\ sess' = [sess EXCEPT ![leaf] =
                            [@ EXCEPT !.st = "skip", !.completed = TRUE]]
              /\ tasks' = tasks
              /\ NextLeaf
         ELSE CreateTask(wp.last_point, wp.video_length, wp.completed = 1)
    ELSE IF NeedsProbe(embedded)
         THEN /\ mainPc' = "get_video_duration"
              /\ UNCHANGED <<leaf, cur, tasks, sess>>
         ELSE CreateTask(0, embedded, FALSE)

\* an exception leaves main(): asyncio.run cancels every task still pending
\* and each runs its async-with exit, releasing its slot
MainRaises ==
    /\ mainPc' = "failed"
    /\ sess' = [i \in Leaves |->
                  IF i = leaf THEN [sess[i] EXCEPT !.st = "failed"]
                  ELSE IF sess[i].st \in Streaming \cup {"queued"}
                  THEN Ended("cancelled")
                  ELSE sess[i]]
    /\ sem' = limit
    /\ UNCHANGED <<leaf, cur, tasks>>

\* main.py 63: await api.get_leaf_info returns or raises
GetLeafInfo ==
    /\ mainPc = "get_leaf_info"
    /\ \/ \E info \in LeafInfoAnswers :
            /\ cur' = [cur EXCEPT !.media = info.media,
                                  !.duration = info.duration]
            /\ sess' = [sess EXCEPT ![leaf].st = "resolving"]
            /\ mainPc' = "get_video_watch_progress"
            /\ UNCHANGED <<leaf, tasks, sem>>
       \/ MainRaises
    /\ UNCHANGED <<now, limit, failures, seqVars>>

\* main.py 64-69: await api.get_video_watch_progress returns or raises
GetVideoWatchProgress ==
    /\ mainPc = "get_video_watch_progress"
    /\ \/ \E wp \in WatchProgressAnswers :
            /\ cur' = [cur EXCEPT !.wp = wp]
            /\ mainPc' = "media"
            /\ UNCHANGED <<leaf, tasks, sess, sem>>
       \/ MainRaises
    /\ UNCHANGED <<now, limit, failures, seqVars>>

\* main.py 71-99: main() runs on with the answer: the media URL is taken
\* from playurl, has to be looked up by ccid, or is missing
ResolveMedia ==
    /\ mainPc = "media"
    /\ CASE cur.media = "playurl" -> Seed(cur.wp, cur.duration)
         [] cur.media = "ccid" ->
                /\ mainPc' = "get_video_playurl"
                /\ UNCHANGED <<leaf, cur, tasks, sess>>
         [] OTHER ->
                /\ sess' = [sess EXCEPT ![leaf] =
                              [@ EXCEPT !.st = "nomedia",
                                        !.completed = IsCompleted(cur.wp)]]
                /\ tasks' = tasks
                /\ NextLeaf
    /\ UNCHANGED <<now, limit, sem, failures, seqVars>>

\* main.py 76-77: await api.get_video_playurl returns or raises
GetVideoPlayurl ==
    /\ mainPc = "get_video_playurl"
    /\ \/ Seed(cur.wp, cur.duration) /\ UNCHANGED sem
       \/ MainRaises
    /\ UNCHANGED <<now, limit, failures, seqVars>>

\* main.py 96: await get_video_duration returns the probed length or raises
GetVideoDuration ==
    /\ mainPc = "get_video_duration"
    /\ \/ \E d \in ProbeAnswers : CreateTask(0, d, FALSE) /\ UNCHANGED sem
       \/ MainRaises
    /\ UNCHANGED <<now, limit, failures, seqVars>>

\* main.py 109-111: gather returns once every task is done;
\* "All tasks completed." is logged
Gather ==
    /\ mainPc = "gather"
    /\ \A k \in 1..Len(tasks) : sess[tasks[k]].st = "done"
    /\ mainPc' = "completed"
    /\ UNCHANGED <<now, limit, sem, leaf, cur, tasks, failures, sess, seqVars>>

(* -------------------- wrapped send_heartbeats task -------------------- *)

\* the for loop of send_heartbeats takes the next batch: the session sleeps
\* until it is due, or the loop ends, the task finishes and its slot is freed
TakeBatch(i, s, held) ==
    \E r \in {Batched(s.g)} :
    IF r.out = <<>>
    THEN /\ sess' = [sess EXCEPT ![i] = Ended("done")]
         /\ sem' = held + 1
    ELSE /\ sess' = [sess EXCEPT ![i] =
                       [s EXCEPT !.g = r.gen, !.st = "sleeping",
                                 !.batch = r.out, !.batchNo = s.batchNo + 1,
                                 !.wakeAt = now + SleepFor(DueTime(r.out), now),
                                 !.attempts = 0, !.fails = 0,
                                 !.lastOutcome = "none"]]
         /\ sem' = held

\* main.py 164-166: builder = Heartbeat(leaf_info, media_url, interval=5,
\* playback_rate=2.0, duration=duration), an object of the task's own
NewBuilderSharedCounter(i, duration) ==
    [HeartbeatInit(i, Interval, PlaybackRate, duration, SeedOf(i))
       EXCEPT !.sequence_id =
          CHOOSE m \in {sess[j].g.sequence_id : j \in Leaves} :
             \A j \in Leaves : m >= sess[j].g.sequence_id]
NewBuilder(i, duration) ==
    HeartbeatInit(i, Interval, PlaybackRate, duration, SeedOf(i))

\* util.py 11: async with ctx acquires a slot (in task creation order);
\* main.py 164-181: the builder and its generator are made, the first batch
\* is taken
Start(i) ==
    /\ mainPc # "failed"
    /\ sess[i].st = "queued"
    /\ \A j \in Leaves : j < i => sess[j].st # "queued"
    /\ CanAcquire(sem)
    /\ LET b == NewBuilder(i, sess[i].duration)
           g == MakeAll(b, now - StartLag * TicksPerSec, sess[i].last_point)
       IN TakeBatch(i, [sess[i] EXCEPT !.g = g], sem - 1)
    /\ UNCHANGED <<now, limit, mainPc, leaf, cur, tasks, failures, seqVars>>

\* one attempt: api.send_video_heartbeat is called with list(batch), the
\* records the for loop holds
AttemptRegenerated(i, s) ==
    LET shift == IF s.fails > 0 THEN Len(s.batch) ELSE 0 IN
    [s EXCEPT !.st = "sending", !.attempts = s.attempts + 1,
              !.failedAt = 0, !.wakeAt = 0, !.lastOutcome = "none",
              !.batch = [k \in 1..Len(s.batch) |->
                           [s.batch[k] EXCEPT !.sq = @ + shift]],
              !.g = [s.g EXCEPT !.sequence_id = @ + shift]]
Attempt(i, s) ==
    [s EXCEPT !.st = "sending", !.attempts = s.attempts + 1,
              !.failedAt = 0, !.wakeAt = 0, !.lastOutcome = "none"]

\* main.py 181: the pacing sleep is over
Wake(i) ==
    /\ sess[i].st = "sleeping"
    /\ now >= sess[i].wakeAt
    /\ sess' = [sess EXCEPT ![i] = Attempt(i, sess[i])]
    /\ UNCHANGED <<now, limit, sem, mainPc, leaf, cur, tasks, failures, seqVars>>

\* main.py 184-196: the POST ends; on an exception the error is logged and
\* sleep(1) is awaited, otherwise the loop is left and watch progress is
\* queried
SendReturns(i) ==
    /\ sess[i].st = "sending"
    /\ \E outcome \in SubmitOutcomes :
         IF SendVideoHeartbeatRaises(outcome)
         THEN /\ failures < MaxFails
              /\ failures' = failures + 1
              /\ sess' = [sess EXCEPT ![i] =
                            [@ EXCEPT !.st = AfterSendFailure,
                                      !.fails = @ + 1,
                                      !.lastOutcome = outcome,
                                      !.failedAt = now,
                                      !.wakeAt = RetryWake(now)]]
         ELSE /\ failures' = failures
              /\ sess' = [sess EXCEPT ![i] =
                            [@ EXCEPT !.st = "query",
                                      !.okBatches = @ + 1,
                                      !.lastOutcome = outcome,
                                      !.delivered =
                                          @ \cup {sess[i].batch[k].sq :
                                                    k \in 1..Len(sess[i].batch)}]]
    /\ UNCHANGED <<now, limit, sem, mainPc, leaf, cur, tasks, seqVars>>

\* main.py 191-192: sleep(1) is over, the loop tries again
Retry(i) ==
    /\ sess[i].st = "backoff"
    /\ now >= sess[i].wakeAt
    /\ sess' = [sess EXCEPT ![i] = Attempt(i, sess[i])]
    /\ UNCHANGED <<now, limit, sem, mainPc, leaf, cur, tasks, failures, seqVars>>

\* main.py 206-211: pbar.set_postfix with the answer's watch_length
SetPostfix(s, watch_length) ==
    [s EXCEPT !.postfix = [set |-> TRUE, watch_length |-> watch_length]]

\* main.py 196-211 and the next turn of the for loop: the watch-progress
\* query returns and the postfix is set; then the next batch is taken
QueryReturns(i) ==
    /\ sess[i].st = "query"
    /\ \E w \in WatchLengthAnswers : TakeBatch(i, SetPostfix(sess[i], w), sem)
    /\ UNCHANGED <<now, limit, mainPc, leaf, cur, tasks, failures, seqVars>>

\* main.py 211-212: what the except branch of the re-read does to the task
AfterQueryFailureFatal == "raise"
AfterQueryFailure == "continue"

\* main.py 196-212 and the next turn of the for loop: the watch-progress
\* query raises, the error is logged and the postfix is left alone; then the
\* next batch is taken
QueryRaises(i) ==
    /\ sess[i].st = "query"
    /\ IF AfterQueryFailure = "continue"
       THEN TakeBatch(i, sess[i], sem)
       ELSE /\ sess' = [sess EXCEPT ![i] = Ended("failed")]
            /\ sem' = sem + 1
    /\ UNCHANGED <<now, limit, mainPc, leaf, cur, tasks, failures, seqVars>>

\* time passes, up to the moment some sleeping task is to wake
Tick ==
    /\ \E i \in Leaves :
         /\ sess[i].st \in {"sleeping", "backoff"}
         /\ sess[i].wakeAt > now
         /\ now' = sess[i].wakeAt
    /\ UNCHANGED <<limit, sem, mainPc, leaf, cur, tasks, failures, sess, seqVars>>

Next ==
    \/ GetLeafInfo
    \/ GetVideoWatchProgress
    \/ ResolveMedia
    \/ GetVideoPlayurl
    \/ GetVideoDuration
    \/ Gather
    \/ \E i \in Leaves : Start(i)
    \/ \E i \in Leaves : Wake(i)
    \/ \E i \in Leaves : SendReturns(i)
    \/ \E i \in Leaves : Retry(i)
    \/ \E i \in Leaves : QueryReturns(i)
    \/ \E i \in Leaves : QueryRaises(i)
    \/ Tick

Spec == Init /\ [][Next]_vars

\* the event loop runs whatever can run: an awaited call returns or raises,
\* a sleep that is over ends, time passes, a task waiting for the semaphore
\* gets a freed slot.  No step of the program can be undone (time, batch
\* numbers, the leaf index and the failure count only grow), so a run that
\* never stops while a step is possible gives every coroutine its turn; and
\* failing submits are finitely many (MaxFails), so every batch's submit
\* succeeds in the end.
Fairness == WF_vars(Next)

FairSpec == Spec /\ Fairness

\* the same with no resolve call of main() raising
FairSpecNoResolveError ==
    Init /\ [][Next /\ mainPc' # "failed"]_vars /\ Fairness

(* ------------------- the sequencer specification ---------------------- *)

SeqParams ==
    [ D : 1..MaxDur, I : 1..MaxInterval, R : 1..MaxRate, p0 : 0..MaxDur,
      seed : 1..NumSeeds ]

\* the worked examples: D = 20 s, I = 5 s, R = 2, p0 = 0;
\* D = 12 s, I = 5 s, R = 1, p0 = 0; D = 20 s, I = 5 s, R = 1, p0 = 15 s
ExampleRate2 == [D |-> 20 * RateDen, I |-> 5, R |-> 2 * RateDen, p0 |-> 0]
ExampleClamped == [D |-> 12 * RateDen, I |-> 5, R |-> RateOne, p0 |-> 0]
ExampleResumed ==
    [D |-> 20 * RateDen, I |-> 5, R |-> RateOne, p0 |-> 15 * RateDen]
Examples ==
    { [D |-> e.D, I |-> e.I, R |-> e.R, p0 |-> e.p0, seed |-> sd] :
        e \in {ExampleRate2, ExampleClamped, ExampleResumed},
        sd \in 1..NumSeeds }

\* the program's own state where only the sequencer is run
IdleProgram ==
    /\ now = StartSec * TicksPerSec /\ limit = 1 /\ sem = 1
    /\ mainPc = "idle" /\ leaf = 1 /\ cur = NoCur /\ tasks = <<>>
    /\ failures = 0
    /\ sess = [i \in Leaves |-> NewSession]

\* the timestamp make_all is started with: time.time() - 30
SeqStart == (StartSec - StartLag) * TicksPerSec

SeqInit ==
    /\ args \in SeqParams \cup Examples
    /\ gen = MakeAll(HeartbeatInit(1, args.I, args.R, args.D, args.seed),
                     SeqStart, args.p0)
    /\ stream = <<>> /\ batches = <<>>
    /\ IdleProgram

\* the consumer pulls the next record
SeqYield ==
    /\ gen.pc # "done"
    /\ GenNext(gen).out # <<>>
    /\ gen' = GenNext(gen).gen
    /\ stream' = stream \o GenNext(gen).out
    /\ UNCHANGED <<args, batches, progVars>>

\* the consumer's pull finds the generator exhausted
SeqStop ==
    /\ gen.pc # "done"
    /\ GenNext(gen).out = <<>>
    /\ gen' = GenNext(gen).gen
    /\ UNCHANGED <<stream, args, batches, progVars>>

SeqNext == SeqYield \/ SeqStop

SpecSeq == SeqInit /\ [][SeqNext]_vars

(* -------------------- the batching specification ---------------------- *)

\* streams of 0 .. MaxHeartbeats heartbeat records, with and without the
\* leading ratechange record, at the program's interval
BatchParams ==
    { [D |-> k * Interval * r, I |-> Interval, R |-> r, p0 |-> 0, seed |-> sd] :
        k \in 0..MaxHeartbeats, r \in {RateOne, PlaybackRate},
        sd \in 1..NumSeeds }

BatchInit ==
    /\ args \in BatchParams
    /\ gen = MakeAll(HeartbeatInit(1, args.I, args.R, args.D, args.seed),
                     SeqStart, args.p0)
    /\ stream = <<>> /\ batches = <<>>
    /\ IdleProgram

\* the for loop asks batched for the next batch and gets one
BatchedYield ==
    /\ gen.pc # "stopped"
    /\ Batched(gen).out # <<>>
    /\ batches' = Append(batches, Batched(gen).out)
    /\ gen' = Batched(gen).gen
    /\ UNCHANGED <<stream, args, progVars>>

\* the for loop asks batched for the next batch and batched is exhausted
BatchedStop ==
    /\ gen.pc # "stopped"
    /\ Batched(gen).out = <<>>
    /\ gen' = [Batched(gen).gen EXCEPT !.pc = "stopped"]
    /\ UNCHANGED <<stream, args, batches, progVars>>

BatchNext == BatchedYield \/ BatchedStop

SpecBatch == BatchInit /\ [][BatchNext]_vars

(* ------------------------------ claims -------------------------------- *)

\* C1: for D > 0, I > 0, R > 0 and 0 <= p0 < D, the finished stream's last
\* record has progress exactly D, and progress never decreases along the
\* stream, the leading ratechange record included.
C1_FinalProgressIsDuration ==
    (args.p0 < args.D) =>
        /\ \A k \in 1..(Len(stream) - 1) : stream[k].cp <= stream[k + 1].cp
        /\ gen.pc = "done" =>
              /\ Len(stream) >= 1
              /\ stream[Len(stream)].cp = args.D

\* C1 witness: a finished stream that starts with a ratechange record from
\* a positive start progress and whose last step was clamped
C1_Witness ==
    /\ gen.pc = "done"
    /\ 0 < args.p0 /\ args.p0 < args.D
    /\ args.R # RateOne
    /\ Len(stream) >= 3
    /\ (args.D - args.p0) % (args.I * args.R) # 0
    /\ stream[Len(stream)].cp = args.D

\* N of the sequence-number claim
C2_ExpectedCount ==
    CeilDiv(args.D - args.p0, args.I * args.R)
        + (IF args.R # RateOne THEN 1 ELSE 0)

\* C2: with 0 <= p0 < D the sq fields are 1, 2, ..., N in emission order,
\* N = ceil((D - p0) / (I * R)), plus 1 when R # 1.
C2_SequenceNumbers ==
    (args.p0 < args.D) =>
        /\ \A k \in 1..Len(stream) : stream[k].sq = k
        /\ Len(stream) <= C2_ExpectedCount
        /\ gen.pc = "done" => Len(stream) = C2_ExpectedCount

\* C2 witness: a finished stream of at least four records, one of them the
\* ratechange record, whose last step was a partial one
C2_Witness ==
    /\ gen.pc = "done"
    /\ args.p0 < args.D
    /\ args.R # RateOne
    /\ (args.D - args.p0) % (args.I * args.R) # 0
    /\ Len(stream) >= 4
    /\ Len(stream) = C2_ExpectedCount
    /\ stream[Len(stream)].sq = Len(stream)

(* --------------------- claims on the program -------------------------- *)

StreamingNow == {i \in Leaves : sess[i].st \in Streaming}

\* what a step may do to the batches of a session (sess: before, sess': after)
C3_Step ==
    \A i \in Leaves :
       LET s == sess[i]
           t == sess'[i]
       IN /\ t.st \in {"sleeping", "sending", "backoff"} =>
                /\ t.okBatches = t.batchNo - 1
                /\ t.delivered = 1..(t.batch[1].sq - 1)
                /\ \A k \in 1..Len(t.batch) : t.batch[k].sq = t.batch[1].sq + k - 1
                /\ t.g.sequence_id = t.batch[Len(t.batch)].sq
          /\ t.st = "query" =>
                /\ t.okBatches = t.batchNo
                /\ t.delivered = 1..t.g.sequence_id
          /\ (t.st = "done" /\ s.st # "done") =>
                /\ s.st = "query"
                /\ s.okBatches = s.batchNo
                /\ GenNext(s.g).out = <<>>
                /\ s.delivered = 1..s.g.sequence_id
                /\ s.g.sequence_id >= 1

\* C3: within a session batches are submitted in sequence order and none is
\* dropped: while batch k is waited for, sent or retried, exactly the k-1
\* batches before it have had a submit call return normally and their
\* records are the delivered ones; the session goes on to the watch-progress
\* query only with batch k delivered; and it finishes only from there, with
\* the generator exhausted and every record it produced delivered.
C3_InOrderNoDrop == [][C3_Step]_vars

\* C3 witness: the second batch of a session has just been delivered after
\* a failed attempt, nothing is left to generate
C3_Witness ==
    \E i \in Leaves :
       /\ sess[i].st = "query"
       /\ sess[i].batchNo = 2 /\ sess[i].okBatches = 2
       /\ sess[i].fails >= 1
       /\ GenNext(sess[i].g).out = <<>>
       /\ sess[i].delivered = 1..sess[i].g.sequence_id

\* the due time of a batch, and what a step may do about it
C4_Due(batch) == batch[Len(batch)].ts * TicksPerMs

C4_Step ==
    \A i \in Leaves :
       LET s == sess[i]
           t == sess'[i]
       IN /\ (t.st = "sending" /\ s.st # "sending") => now >= C4_Due(s.batch)
          /\ (t.st = "sleeping" /\ (s.st # "sleeping")) =>
                t.wakeAt = (IF C4_Due(t.batch) > now THEN C4_Due(t.batch) ELSE now)

\* C4: no submit attempt for a batch is made before the batch's due time,
\* the timestamp of its last record: the pacing sleep asked for when the
\* batch is formed is the whole gap to the due time, and is zero when the
\* due time is already past.
C4_NeverBeforeDue == [][C4_Step]_vars

\* C4 witness: the first attempt for a second batch is made at the very
\* instant the batch falls due, time having passed since the program began
C4_Witness ==
    \E i \in Leaves :
       /\ sess[i].st = "sending"
       /\ sess[i].batchNo = 2 /\ sess[i].attempts = 1
       /\ now = C4_Due(sess[i].batch)
       /\ now > StartSec * TicksPerSec

\* what a step of the retry loop may do
C5_Step ==
    \A i \in Leaves :
       LET s == sess[i]
           t == sess'[i]
       IN /\ t.st \in {"sending", "query"} => t.attempts = t.fails + 1
          /\ t.st = "backoff" => t.attempts = t.fails /\ t.fails >= 1
          /\ (s.st = "backoff" /\ t.st = "sending") =>
                now >= s.failedAt + 1 * TicksPerSec
          /\ s.st \in {"sending", "backoff"} =>
                t.st \in {"sending", "backoff", "query", "cancelled"}
          /\ (s.st = "sending" /\ t.st = "query") =>
                t.okBatches = s.okBatches + 1

C6_EveryFailureRetried ==
    \A i \in Leaves :
       sess[i].lastOutcome \in {"api_error", "http_error", "network_error"} =>
          sess[i].st = "backoff"

\* C7: at most max_concurrent_tasks sessions are streaming at once, and the
\* semaphore's value is the number of free slots.
C7_AtMostLimitStreaming ==
    /\ Cardinality(StreamingNow) <= limit
    /\ sem = limit - Cardinality(StreamingNow)

\* C7 witness: every slot is taken by a streaming session while another
\* session's task waits for one
C7_Witness ==
    /\ Cardinality(StreamingNow) = limit
    /\ \E j \in Leaves : sess[j].st = "queued"

\* C8 (as claimed): an error raised while one leaf is resolved ends that
\* session only: no sibling session is cancelled and main() goes on to the
\* leaves after it.
C8_ResolveErrorIsLocal ==
    \A i \in Leaves :
       sess[i].st = "failed" =>
          /\ \A j \in Leaves \ {i} : sess[j].st # "cancelled"
          /\ mainPc # "failed"

\* C9: a leaf whose watch progress says completed == 1 gets no task and no
\* heartbeat submission: it ends skipped (or, with no media URL, it was left
\* one step earlier), and while its media URL is still being looked up no
\* task exists for it.
C9_CompletedIsSkipped ==
    /\ \A i \in Leaves :
          sess[i].completed =>
             /\ sess[i].st \in {"skip", "nomedia"}
             /\ \A k \in 1..Len(tasks) : tasks[k] # i
             /\ sess[i].attempts = 0 /\ sess[i].delivered = {}
    /\ (mainPc = "get_video_playurl" /\ cur.wp.completed = 1) =>
          /\ sess[leaf].st = "resolving"
          /\ \A k \in 1..Len(tasks) : tasks[k] # leaf

\* C9 witness: a completed leaf was skipped while the session of another
\* leaf is streaming
C9_Witness ==
    \E i \in Leaves :
       /\ sess[i].completed /\ sess[i].st = "skip"
       /\ \E j \in Leaves : sess[j].st \in Streaming

\* C10 (as claimed): "All tasks completed." is reported only when every
\* session is in a terminal state, and no session is ever cancelled on
\* account of another session's fatal error.
C10_CompletionAfterAll ==
    /\ mainPc = "completed" => \A i \in Leaves : sess[i].st \in Terminal
    /\ \A i \in Leaves : sess[i].st # "cancelled"

\* what a failed watch-progress re-read does to session i (sess: before,
\* sess': after)
C11_Effect(i) ==
    LET s == sess[i]
        t == sess'[i]
        r == Take(s.g, BatchSize)
    IN /\ t.st \in {"sleeping", "done"}
       /\ t.st = "sleeping" =>
             /\ t.postfix = s.postfix
             /\ r.out # <<>> /\ t.batch = r.out /\ t.g = r.gen
             /\ t.batchNo = s.batchNo + 1 /\ t.okBatches = s.okBatches
             /\ t.delivered = s.delivered
       /\ t.st = "done" => r.out = <<>> /\ sem' = sem + 1
       /\ \A j \in Leaves \ {i} : sess'[j] = sess[j]
       /\ mainPc' = mainPc

\* C11: a failure of the watch-progress re-read after a delivered batch is
\* caught: the session does not fail, the postfix shown stays as it was, and
\* the session goes on to the next batch of its stream (which it waits for and
\* sends as any other) or, with the stream exhausted, finishes and frees its
\* slot; nothing else is disturbed.
C11_QueryFailureNonFatal ==
    [][\A i \in Leaves : QueryRaises(i) => C11_Effect(i)]_vars

\* C11 witness: the re-read after a session's first batch failed (the postfix
\* was never set) and the second batch has since been delivered, nothing is
\* left to generate
C11_Witness ==
    \E i \in Leaves :
       /\ sess[i].st = "query"
       /\ sess[i].batchNo = 2 /\ sess[i].okBatches = 2
       /\ ~sess[i].postfix.set
       /\ GenNext(sess[i].g).out = <<>>

(* ----------------- further claims on the sequencer --------------------- *)

\* a stream reduced to the kind and progress of its records
KindAndProgress(recs) == [k \in 1..Len(recs) |-> <<recs[k].et, recs[k].cp>>]

\* the arguments of a run without the seed
ArgsAre(e) ==
    /\ args.D = e.D /\ args.I = e.I /\ args.R = e.R /\ args.p0 = e.p0

\* C12: the stream has a leading ratechange record if and only if the
\* playback rate is not 1; that record has progress 0, the starting timestamp
\* and sequence number 1 whatever p0 is; every other record is of kind
\* heartbeat.  D = 20, I = 5, R = 2, p0 = 0 gives exactly
\* [ratechange@0, heartbeat@10, heartbeat@20].
C12_RateChangeLeads ==
    /\ \A k \in 1..Len(stream) :
          /\ stream[k].et \in {"ratechange", "heartbeat"}
          /\ stream[k].et = "ratechange" <=> (k = 1 /\ args.R # RateOne)
    /\ (gen.pc # "start" /\ args.R # RateOne) =>
          /\ Len(stream) >= 1
          /\ stream[1].et = "ratechange"
          /\ stream[1].cp = 0
          /\ stream[1].ts = ToMillis(SeqStart)
          /\ stream[1].sq = 1
    /\ (gen.pc = "done" /\ ArgsAre(ExampleRate2)) =>
          KindAndProgress(stream) =
             << <<"ratechange", 0>>, <<"heartbeat", 10 * RateDen>>,
                <<"heartbeat", 20 * RateDen>> >>

\* C12 witness: the example run has finished with its three records, the
\* first of them the ratechange record
C12_Witness ==
    /\ gen.pc = "done" /\ ArgsAre(ExampleRate2) /\ Len(stream) = 3
    /\ stream[1].et = "ratechange" /\ stream[3].cp = args.D

\* how many records come before the first heartbeat record
C13_Lead == IF args.R # RateOne THEN 1 ELSE 0

\* C13: the k-th heartbeat record has progress min(D, p0 + k * I * R).
\* D = 12, I = 5, R = 1, p0 = 0 gives [5, 10, 12]; p0 = 15, D = 20, I = 5,
\* R = 1 gives [20].
C13_KthProgress ==
    /\ \A k \in 1..(Len(stream) - C13_Lead) :
          stream[k + C13_Lead].cp =
             Min2(args.D, args.p0 + k * args.I * args.R)
    /\ (gen.pc = "done" /\ ArgsAre(ExampleClamped)) =>
          KindAndProgress(stream) =
             << <<"heartbeat", 5 * RateDen>>, <<"heartbeat", 10 * RateDen>>,
                <<"heartbeat", 12 * RateDen>> >>
    /\ (gen.pc = "done" /\ ArgsAre(ExampleResumed)) =>
          KindAndProgress(stream) = << <<"heartbeat", 20 * RateDen>> >>

\* C13 witness: the clamped example has finished with three records
C13_Witness ==
    /\ gen.pc = "done" /\ ArgsAre(ExampleClamped) /\ Len(stream) = 3
    /\ stream[3].cp = args.D /\ stream[3].cp < args.p0 + 3 * args.I * args.R

\* the step of the timestamp before heartbeat number n, in ticks
C17_StepOf(n) == args.I * TicksPerSec + JitterOf(args.seed, n)

\* C17: the ts of a record is strictly greater than that of the record before
\* it whenever the step between them, interval + jitter, is at least one
\* millisecond (so the ts of a whole stream are strictly increasing when
\* every step is); the ratechange record carries the starting timestamp, and
\* the first heartbeat a strictly later one.
C17_TimestampsIncrease ==
    /\ \A k \in 1..(Len(stream) - 1) :
          C17_StepOf(k + 1 - C13_Lead) >= TicksPerMs =>
             stream[k + 1].ts > stream[k].ts
    /\ (Len(stream) >= 1 /\ args.R # RateOne) =>
          stream[1].ts = ToMillis(SeqStart)
    /\ (Len(stream) > C13_Lead /\ C17_StepOf(1) >= TicksPerMs) =>
          stream[1 + C13_Lead].ts > ToMillis(SeqStart)

\* C17 witness: a finished stream of a ratechange record and at least three
\* heartbeats whose jitter was negative at every other step
C17_Witness ==
    /\ gen.pc = "done"
    /\ args.R # RateOne /\ args.seed = 2
    /\ Len(stream) >= 4
    /\ JitterOf(args.seed, 2) < 0
    /\ \A k \in 1..(Len(stream) - 1) : stream[k + 1].ts > stream[k].ts

(* ------------------------ claims on batching -------------------------- *)

\* every record the generator yields, by repeated next()
RECURSIVE Drain(_)
Drain(g) ==
    LET r == GenNext(g) IN
    IF r.out = <<>> THEN <<>> ELSE r.out \o Drain(r.gen)

\* the batches laid end to end
RECURSIVE Flatten(_)
Flatten(bs) == IF bs = <<>> THEN <<>> ELSE Head(bs) \o Flatten(Tail(bs))

\* the whole stream of the run, without batching
C14_Stream ==
    Drain(MakeAll(HeartbeatInit(1, args.I, args.R, args.D, args.seed),
                  SeqStart, args.p0))

\* C14: the batches partition the stream in order: each batch is non-empty
\* and has at most 6 records, each batch but the last has exactly 6, the
\* batches laid end to end are the stream; 14 records come in batches of
\* 6, 6 and 2.
C14_BatchesPartition ==
    /\ \A b \in 1..Len(batches) :
          /\ Len(batches[b]) >= 1 /\ Len(batches[b]) <= 6
          /\ b < Len(batches) => Len(batches[b]) = 6
    /\ Len(Flatten(batches)) <= Len(C14_Stream)
    /\ Flatten(batches) = SubSeq(C14_Stream, 1, Len(Flatten(batches)))
    /\ gen.pc = "stopped" =>
          /\ Flatten(batches) = C14_Stream
          /\ Len(C14_Stream) = 14 =>
                [b \in 1..Len(batches) |-> Len(batches[b])] = <<6, 6, 2>>

\* C14 witness: a stream of 14 records, the ratechange record among them,
\* has been handed out whole
C14_Witness ==
    /\ gen.pc = "stopped"
    /\ args.R # RateOne
    /\ Len(C14_Stream) = 14
    /\ Len(batches) = 3 /\ Len(batches[3]) = 2

(* ------------------------- claims on seeding -------------------------- *)

\* a step creates the task of the leaf main() is resolving
C15_Created == sess[leaf].st # "queued" /\ sess'[leaf].st = "queued"

\* what a step of main() may do about seeding (cur: the answers main() holds
\* for the leaf before the step)
C15_Step ==
    /\ C15_Created =>
          IF cur.wp.present
          THEN /\ cur.wp.completed # 1
               /\ sess'[leaf].last_point = cur.wp.last_point
               /\ sess'[leaf].duration = cur.wp.video_length
               /\ mainPc # "get_video_duration"
          ELSE /\ sess'[leaf].last_point = 0
               /\ IF cur.duration # 0
                  THEN /\ sess'[leaf].duration = cur.duration
                       /\ mainPc # "get_video_duration"
                  ELSE /\ mainPc = "get_video_duration"
                       /\ sess'[leaf].duration \in ProbeAnswers
    /\ (mainPc # "get_video_duration" /\ mainPc' = "get_video_duration") =>
          /\ ~cur.wp.present
          /\ cur.duration = 0
          /\ cur.media \in {"playurl", "ccid"}

\* C15: a task is created from a prior watch progress that is not complete
\* with its last_point and its video_length; without prior progress it is
\* created at progress 0 with the embedded duration, or, when that is 0, with
\* the duration the probe returns; and the probe is called only without
\* prior progress and with an embedded duration of 0.
C15_SeedingRule == [][C15_Step]_vars

\* C15 witness: one session resumed from a prior last_point with the recorded
\* video_length, another started at 0 with a probed duration
C15_Witness ==
    \E i, j \in Leaves :
       /\ sess[i].st \in Streaming
       /\ sess[i].last_point = ShortDur /\ sess[i].duration = LongDur
       /\ sess[j].st \in Streaming \cup {"queued"}
       /\ sess[j].last_point = 0 /\ sess[j].duration \in ProbeAnswers

(* ------------------------ claims on termination ----------------------- *)

\* C16 (as claimed): under fairness, with every batch's submit succeeding in
\* the end, every session for which a task was created reaches Done, and
\* once a task exists completion is eventually reported with every slot
\* free.
C16_EverySessionFinishes ==
    /\ \A i \in Leaves : (sess[i].st = "queued") ~> (sess[i].st = "done")
    /\ (\E i \in Leaves : sess[i].st = "queued")
          ~> (mainPc = "completed" /\ sem = limit)

(* ------------------------ claims on isolation ------------------------- *)

\* the stream session i yields when it runs alone from the same resume point
\* (timestamp 0: the fields compared do not depend on it)
C18_Alone(i) ==
    Drain(MakeAll(HeartbeatInit(i, Interval, PlaybackRate, sess'[i].duration,
                                SeedOf(i)),
                  0, sess'[i].last_point))

\* a record without its timestamp
C18_Untimed(rec) == [rec EXCEPT !.ts = 0]

\* what a step may do to the records the sessions hold (sess: before,
\* sess': after)
C18_Step ==
    \A i \in Leaves :
       LET s == sess[i]
           t == sess'[i]
       IN /\ (s.st \in Streaming /\ t.st \in Streaming /\ t.batchNo = s.batchNo) =>
                /\ t.batch = s.batch
                /\ t.g = s.g
          /\ (t.st \in Streaming /\ t.batchNo # s.batchNo) =>
                LET alone == C18_Alone(i)
                    off == (t.batchNo - 1) * BatchSize
                IN /\ t.batchNo = s.batchNo + 1
                   /\ Len(t.batch) >= 1
                   /\ off + Len(t.batch) <= Len(alone)
                   /\ \A k \in 1..Len(t.batch) :
                         /\ C18_Untimed(t.batch[k]) = C18_Untimed(alone[off + k])
                         /\ t.batch[k].sq = off + k
                         /\ t.batch[k].v = i
                         /\ t.batch[k].d = t.duration

\* C18: whatever the other sessions do meanwhile, every batch a session
\* takes is the corresponding stretch of the stream the session yields when
\* it runs alone: sequence numbers counted from 1, the same kinds and
\* progress values, and the session's own identifiers in every record, so
\* that no batch mixes the records of two sessions; and no step, of the
\* session or of another, alters the batch or the generator a session holds
\* until the session takes its next batch.
C18_SessionsIsolated == [][C18_Step]_vars

\* C18 witness: two sessions stream at once, one on its second batch while
\* the other is on its first
C18_Witness ==
    \E i, j \in Leaves :
       /\ i # j
       /\ sess[i].st \in {"sleeping", "sending"} /\ sess[i].batchNo = 2
       /\ sess[j].st \in {"sleeping", "sending"} /\ sess[j].batchNo = 1
       /\ sess[j].batch[1].sq = 1

(* ------------------------- claims on retries -------------------------- *)

\* what a step may do to the batch of a session that is being sent or retried
C19_Step ==
    \A i \in Leaves :
       LET s == sess[i]
           t == sess'[i]
       IN /\ (s.st \in {"sending", "backoff"} /\ t.st \in {"sending", "backoff"}) =>
                /\ t.batch = s.batch
                /\ t.g = s.g
                /\ t.batchNo = s.batchNo /\ t.okBatches = s.okBatches
                /\ t.delivered = s.delivered
          /\ (s.st = "sending" /\ t.st = "query") =>
                /\ t.batch = s.batch /\ t.g = s.g
                /\ t.okBatches = s.okBatches + 1
                /\ t.okBatches = t.batchNo
          /\ (s.st = "query" /\ t.st = "sleeping") =>
                /\ t.batchNo = s.batchNo + 1 /\ t.okBatches = s.okBatches
                /\ t.batch[1].sq = s.g.sequence_id + 1
          /\ (s.st # "done" /\ t.st = "done") =>
                /\ s.st = "query" /\ s.okBatches = s.batchNo

\* C19: a retry resends the batch unchanged: from a failed attempt to the
\* next one the records of the batch, the generator and the sequence counter
\* stay as they are; a successful submit is the only one of its batch, the
\* session moving on to a new batch (or to Done) after it, so that on Done
\* there has been exactly one successful submission per batch.
C19_RetrySameBatch == [][C19_Step]_vars

\* C19 witness: the second batch of a session is being sent again after a
\* failed attempt, its records numbered on from the first batch and the
\* sequence counter at the batch's last record
C19_Witness ==
    \E i \in Leaves :
       /\ sess[i].st = "sending"
       /\ sess[i].batchNo = 2 /\ sess[i].attempts = 2 /\ sess[i].fails = 1
       /\ sess[i].batch[1].sq = BatchSize + 1
       /\ sess[i].g.sequence_id = sess[i].batch[Len(sess[i].batch)].sq

(* ------------------ claims on a start at the end ---------------------- *)

\* the whole stream for the resume point of session i at playback rate r
C20_StreamAt(i, r) ==
    Drain(MakeAll(HeartbeatInit(i, Interval, r, sess'[i].duration, SeedOf(i)),
                  0, sess'[i].last_point))

\* what a step may do with a session whose start progress is at or past its
\* duration
C20_Step ==
    \A i \in Leaves :
       LET s == sess[i]
           t == sess'[i]
       IN /\ (t.st \in Streaming \cup {"queued"} /\ t.last_point >= t.duration) =>
                /\ C20_StreamAt(i, RateOne) = <<>>
                /\ KindAndProgress(C20_StreamAt(i, PlaybackRate)) =
                      << <<"ratechange", 0>> >>
          /\ (t.st \in Streaming /\ t.last_point >= t.duration) =>
                /\ t.batchNo = 1
                /\ KindAndProgress(t.batch) = << <<"ratechange", 0>> >>
                /\ t.batch[1].sq = 1
                /\ GenNext(t.g).out = <<>>
                /\ t.okBatches <= 1 /\ t.delivered \subseteq {1}
          /\ (s.st = "query" /\ s.last_point >= s.duration /\ t # s) =>
                t.st \in {"done", "cancelled"}

\* C20: for a session started with p0 >= D the sequencer yields no heartbeat
\* record: nothing at rate 1, the single ratechange record with progress 0
\* at another rate; the session then has that one batch, submits it
\* successfully at most once and finishes after it.
C20_StartAtEnd == [][C20_Step]_vars

\* C20 witness: a session resumed at last_point = video_length has had its
\* single ratechange record delivered, after one failed attempt
C20_Witness ==
    \E i \in Leaves :
       /\ sess[i].st = "query"
       /\ sess[i].duration > 0 /\ sess[i].last_point >= sess[i].duration
       /\ sess[i].okBatches = 1 /\ sess[i].fails = 1
       /\ sess[i].delivered = {1}

====
